---- MODULE Spec2Model ----
(***************************************************************************)
(* Model of src/services/youtube_service.py: YouTubeService, which         *)
(* resolves a (song title, artists) pair to a YouTube video ID through the *)
(* YouTube Data API v3 or, without an API client, through scraping of the  *)
(* search results page.                                                     *)
(*                                                                          *)
(* Python strings are sequences of one-character strings, so that          *)
(* lower(), split(), the "in" substring test, len() and the regular        *)
(* expressions are computed character by character.                        *)
(***************************************************************************)
EXTENDS Integers, Sequences, FiniteSets, TLC

VARIABLES
    api_key,                \* os.getenv("YOUTUBE_API_KEY", "") is non-empty
    YOUTUBE_API_AVAILABLE,  \* the googleapiclient import succeeded
    youtube_api,            \* self.youtube_api is a client (TRUE) or None (FALSE)
    song_title,             \* argument of the running search_video_id call
    artists,                \* argument of the running search_video_id call
    pc,                     \* "idle", "api", "scrape", "done"
    variant,                \* index in queries of the next query to issue
    api_calls,              \* request.execute() calls issued by this call
    http_calls,             \* session.get() calls issued by this call
    last_query,             \* the query string of the last request issued
    last_response,          \* what the last request produced
    outcomes,               \* how each loop iteration of this call ended
    first_results,          \* history: the first API variant of this call that
                            \* returned a non-empty list, and the video ID of
                            \* the first item of that list that passes ID
                            \* validation and the keyword filter
    any_usable_candidate,    \* history: some API variant of this call returned
                            \* an item that passes ID validation and the
                            \* keyword filter
    result,                 \* what search_video_id handed to its caller
    _youtube_service,       \* the module global: None or an instance
    instances,              \* history: YouTubeService() constructions so far;
                            \* the k-th one made is instance k
    worker_pc,              \* where each worker is in get_youtube_service:
                            \* "idle", "construct", "assign", "return"
    new_instance,           \* per worker: the instance it constructed and
                            \* has not stored in the global yet
    returned                \* history: the instances that calls returned

singleton_vars == <<_youtube_service, instances, worker_pc, new_instance, returned>>

vars == <<api_key, YOUTUBE_API_AVAILABLE, youtube_api, song_title, artists, pc,
          variant, api_calls, http_calls, last_query, last_response, outcomes,
          first_results, any_usable_candidate, result, _youtube_service,
          instances, worker_pc, new_instance, returned>>

\* ------------------------------------------------------------------------
\* Bounds
\* ------------------------------------------------------------------------
MaxItems == 2       \* longest list of items in one API response
MaxEntries == 2     \* longest list of items in the ytInitialData of one page
MaxTails == 2       \* most "/watch?v=" occurrences in one page
MaxWorkers == 2     \* workers (threads of the server) that call get_youtube_service

\* ------------------------------------------------------------------------
\* String data: song titles, artists, video IDs, candidate titles
\* ------------------------------------------------------------------------
T_BlindingLights == <<"B", "l", "i", "n", "d", "i", "n", "g", " ", "L", "i", "g", "h", "t", "s">>
T_X == <<"X">>
T_Empty == <<>>
T_StarboyLights == <<"S", "t", "a", "r", "b", "o", "y", " ", "L", "i", "g", "h", "t", "s">>
A_TheWeeknd == <<"T", "h", "e", " ", "W", "e", "e", "k", "n", "d">>
A_DaftPunk == <<"D", "a", "f", "t", " ", "P", "u", "n", "k">>
A_Drake == <<"D", "r", "a", "k", "e">>
ID_4NRXx6U8ABQ == <<"4", "N", "R", "X", "x", "6", "U", "8", "A", "B", "Q">>
ID_dQw4w9WgXcQ == <<"d", "Q", "w", "4", "w", "9", "W", "g", "X", "c", "Q">>
ID_aB3_dE_6hIj == <<"a", "B", "3", "_", "d", "E", "-", "6", "h", "I", "j">>
ID_undefined == <<"u", "n", "d", "e", "f", "i", "n", "e", "d">>
ID_AAAAAAAAAAA == <<"A", "A", "A", "A", "A", "A", "A", "A", "A", "A", "A">>
ID_BadChar == <<"d", "Q", "w", "4", "w", "9", "W", "g", "X", "c", "!">>
CT_OfficialVideo == <<"T", "h", "e", " ", "W", "e", "e", "k", "n", "d", " ", "-", " ", "B", "l", "i", "n", "d", "i", "n", "g", " ", "L", "i", "g", "h", "t", "s", " ", "(", "O", "f", "f", "i", "c", "i", "a", "l", " ", "V", "i", "d", "e", "o", ")">>
CT_Lyrics == <<"B", "l", "i", "n", "d", "i", "n", "g", " ", "L", "i", "g", "h", "t", "s", " ", "-", " ", "T", "h", "e", " ", "W", "e", "e", "k", "n", "d", " ", "(", "L", "y", "r", "i", "c", "s", ")">>
CT_Shorts == <<"B", "l", "i", "n", "d", "i", "n", "g", " ", "L", "i", "g", "h", "t", "s", " ", "#", "s", "h", "o", "r", "t", "s">>
CT_OfficialAudio == <<"T", "h", "e", " ", "W", "e", "e", "k", "n", "d", " ", "-", " ", "B", "l", "i", "n", "d", "i", "n", "g", " ", "L", "i", "g", "h", "t", "s", " ", "(", "O", "f", "f", "i", "c", "i", "a", "l", " ", "A", "u", "d", "i", "o", ")">>
CD_Dots == <<".", ".", ".">>
CD_Weeknd == <<"b", "y", " ", "T", "h", "e", " ", "W", "e", "e", "k", "n", "d">>
KW_shorts == <<"#", "s", "h", "o", "r", "t", "s">>
KW_playlist == <<"p", "l", "a", "y", "l", "i", "s", "t">>
KW_mix == <<"m", "i", "x">>
KW_compilation == <<"c", "o", "m", "p", "i", "l", "a", "t", "i", "o", "n">>
KW_official == <<"o", "f", "f", "i", "c", "i", "a", "l">>
KW_official_audio == <<"o", "f", "f", "i", "c", "i", "a", "l", " ", "a", "u", "d", "i", "o">>
KW_official_video == <<"o", "f", "f", "i", "c", "i", "a", "l", " ", "v", "i", "d", "e", "o">>
KW_music == <<"m", "u", "s", "i", "c">>
KW_null == <<"n", "u", "l", "l">>
KW_true == <<"t", "r", "u", "e">>
KW_false == <<"f", "a", "l", "s", "e">>

\* ------------------------------------------------------------------------
\* Python string operations
\* ------------------------------------------------------------------------
UpperCase == <<"A", "B", "C", "D", "E", "F", "G", "H", "I", "J", "K", "L", "M",
               "N", "O", "P", "Q", "R", "S", "T", "U", "V", "W", "X", "Y", "Z">>
LowerCase == <<"a", "b", "c", "d", "e", "f", "g", "h", "i", "j", "k", "l", "m",
               "n", "o", "p", "q", "r", "s", "t", "u", "v", "w", "x", "y", "z">>
Digits == <<"0", "1", "2", "3", "4", "5", "6", "7", "8", "9">>
Whitespace == {" "}

Range(s) == {s[i] : i \in 1..Len(s)}

\* str.lower() of one character
lower_char(c) ==
    IF \E i \in 1..26 : UpperCase[i] = c
    THEN LowerCase[CHOOSE i \in 1..26 : UpperCase[i] = c]
    ELSE c

\* str.lower()
RECURSIVE lower(_)
lower(s) == IF s = <<>> THEN <<>> ELSE <<lower_char(Head(s))>> \o lower(Tail(s))

\* needle in hay
contains(needle, hay) ==
    \E i \in 0..(Len(hay) - Len(needle)) :
        SubSeq(hay, i + 1, i + Len(needle)) = needle

\* str.split(): the maximal runs of non-whitespace characters
RECURSIVE split_from(_, _, _, _)
split_from(s, i, word, words) ==
    IF i > Len(s)
    THEN IF word = <<>> THEN words ELSE Append(words, word)
    ELSE IF s[i] \in Whitespace
         THEN split_from(s, i + 1, <<>>,
                         IF word = <<>> THEN words ELSE Append(words, word))
         ELSE split_from(s, i + 1, Append(word, s[i]), words)

split(s) == split_from(s, 1, <<>>, <<>>)

\* str.strip()
RECURSIVE lstrip(_)
lstrip(s) == IF s # <<>> /\ Head(s) \in Whitespace THEN lstrip(Tail(s)) ELSE s

RECURSIVE rstrip(_)
rstrip(s) ==
    IF s # <<>> /\ s[Len(s)] \in Whitespace
    THEN rstrip(SubSeq(s, 1, Len(s) - 1))
    ELSE s

strip(s) == rstrip(lstrip(s))

\* a list element that is not a str (None)
NotAString == <<"None">>

\* " ".join(list) raises TypeError on an element that is not a str
join_raises(list) == \E i \in 1..Len(list) : list[i] = NotAString

\* " ".join(list)
RECURSIVE join(_)
join(list) ==
    IF list = <<>> THEN <<>>
    ELSE IF Len(list) = 1 THEN list[1]
    ELSE list[1] \o <<" ">> \o join(Tail(list))

\* list[:2]
first_two(list) == SubSeq(list, 1, IF Len(list) < 2 THEN Len(list) ELSE 2)

\* ------------------------------------------------------------------------
\* _is_valid_video_id
\* ------------------------------------------------------------------------
\* the character class [a-zA-Z0-9_-]
IdChars == Range(UpperCase) \cup Range(LowerCase) \cup Range(Digits) \cup {"_", "-"}

invalid_patterns == {ID_AAAAAAAAAAA, ID_undefined, KW_null, KW_true, KW_false}

\* re.match(r'^[a-zA-Z0-9_-]{11}$', video_id)
matches_id_regex(video_id) ==
    /\ Len(video_id) = 11
    /\ \A i \in 1..Len(video_id) : video_id[i] \in IdChars

\* _is_valid_video_id without the list of invalid patterns
is_valid_video_id_no_patterns(video_id) ==
    IF video_id = <<>> \/ Len(video_id) # 11 THEN FALSE
    ELSE IF ~matches_id_regex(video_id) THEN FALSE
    ELSE TRUE

is_valid_video_id(video_id) ==
    IF video_id = <<>> \/ Len(video_id) # 11 THEN FALSE
    ELSE IF ~matches_id_regex(video_id) THEN FALSE
    ELSE IF video_id \in invalid_patterns THEN FALSE
    ELSE TRUE

\* ------------------------------------------------------------------------
\* Inputs and responses
\* ------------------------------------------------------------------------
Inputs ==
    { [song_title |-> T_BlindingLights, artists |-> <<A_TheWeeknd>>],
      [song_title |-> T_Empty,          artists |-> <<>>],
      [song_title |-> T_StarboyLights,  artists |-> <<A_DaftPunk, A_Drake, A_TheWeeknd>>],
      [song_title |-> T_X,              artists |-> <<NotAString>>] }

NoId == <<>>

Item(id, title, description) ==
    [has_video_id |-> TRUE, video_id |-> id, title |-> title,
     description |-> description]

\* an item without ['id']['videoId']
MalformedItem ==
    [has_video_id |-> FALSE, video_id |-> NoId, title |-> <<>>,
     description |-> <<>>]

OfficialItem  == Item(ID_4NRXx6U8ABQ, CT_OfficialVideo, CD_Dots)
LyricsItem    == Item(ID_dQw4w9WgXcQ, CT_Lyrics, <<>>)
ShortsItem    == Item(ID_aB3_dE_6hIj, CT_Shorts, CD_Weeknd)
PlaceholderItem == Item(ID_AAAAAAAAAAA, CT_OfficialAudio, CD_Dots)

ApiItems == {OfficialItem, LyricsItem, ShortsItem, PlaceholderItem,
             MalformedItem}

ItemLists == UNION {[1..n -> ApiItems] : n \in 0..MaxItems}

ApiError(kind) == [kind |-> kind, items |-> <<>>]

ApiResponses ==
    {ApiError("quota"), ApiError("http_error"), ApiError("exception"),
     ApiError("no_items")} \cup {[kind |-> "items", items |-> l] : l \in ItemLists}

\* the parts of a search results page that the scraping path reads
Text(found, parses, is_dict, contents, tails) ==
    [yt_found |-> found, yt_parses |-> parses, yt_is_dict |-> is_dict,
     yt_contents |-> contents, watch_tails |-> tails]

VideoEntry(id) == [kind |-> "video", video_id |-> id]
OtherEntry == [kind |-> "other", video_id |-> NoId]
NotDictEntry == [kind |-> "not_dict", video_id |-> NoId]

JsonEntries == {VideoEntry(ID_4NRXx6U8ABQ), VideoEntry(ID_undefined),
                OtherEntry, NotDictEntry}

EntryLists == UNION {[1..n -> JsonEntries] : n \in 0..MaxEntries}

\* one itemSectionRenderer, or two of one item each
ContentLists ==
    {<<l>> : l \in EntryLists} \cup
    {<< <<e1>>, <<e2>> >> : e1 \in JsonEntries, e2 \in JsonEntries}

WatchTails == {ID_dQw4w9WgXcQ, ID_BadChar, ID_AAAAAAAAAAA}

TailLists == UNION {[1..n -> WatchTails] : n \in 0..MaxTails}

Texts ==
    {Text(FALSE, FALSE, FALSE, <<>>, t) : t \in TailLists} \cup
    {Text(TRUE, TRUE, TRUE, << <<VideoEntry(ID_4NRXx6U8ABQ)>> >>, t) : t \in TailLists} \cup
    {Text(TRUE, TRUE, TRUE, c, <<>>) : c \in ContentLists} \cup
    {Text(TRUE, FALSE, FALSE, <<>>, <<>>), Text(TRUE, TRUE, FALSE, <<>>, <<>>)}

NoText == Text(FALSE, FALSE, FALSE, <<>>, <<>>)

HttpError(kind) == [kind |-> kind, status_code |-> 0, text |-> NoText]

HttpResponses ==
    {HttpError("timeout"), HttpError("exception")} \cup
    {[kind |-> "status", status_code |-> s, text |-> NoText] : s \in {404}} \cup
    {[kind |-> "status", status_code |-> 200, text |-> t] : t \in Texts}

\* every combination of an embedded JSON blob (absent, not valid JSON, of
\* another shape, or a result list) with the watch URLs of the body
Pages ==
    {Text(FALSE, FALSE, FALSE, <<>>, t) : t \in TailLists} \cup
    {Text(TRUE, FALSE, FALSE, <<>>, t) : t \in TailLists} \cup
    {Text(TRUE, TRUE, FALSE, <<>>, t) : t \in TailLists} \cup
    {Text(TRUE, TRUE, TRUE, c, t) : c \in ContentLists, t \in TailLists}

PageResponses ==
    {[kind |-> "status", status_code |-> 200, text |-> t] : t \in Pages}

\* what the requests after the first one of a call produce
RetryResponses ==
    {HttpError("timeout"), HttpError("exception"),
     [kind |-> "status", status_code |-> 404, text |-> NoText],
     [kind |-> "status", status_code |-> 200,
      text |-> Text(FALSE, FALSE, FALSE, <<>>, <<ID_dQw4w9WgXcQ>>)]}

NoResponse == [kind |-> "none", items |-> <<>>]

NoResults == [variant |-> 0, video_id |-> NoId]

Pending == [kind |-> "pending", video_id |-> NoId]
ReturnNone == [kind |-> "none", video_id |-> NoId]
ReturnId(id) == [kind |-> "id", video_id |-> id]
Raised == [kind |-> "raised", video_id |-> NoId]

\* ------------------------------------------------------------------------
\* __init__
\* ------------------------------------------------------------------------
\* __init__ building the client whenever a key is set
init_youtube_api_key_only(key, available, build_ok) ==
    IF key THEN build_ok ELSE FALSE

\* self.youtube_api after construction: a client only with a key, the
\* library, and a build() that does not raise
init_youtube_api(key, available, build_ok) ==
    IF key /\ available THEN build_ok ELSE FALSE

\* ------------------------------------------------------------------------
\* _search_with_api
\* ------------------------------------------------------------------------
\* artist_str = " ".join(artists[:2]) if artists else ""
artist_str_of(artist_list) ==
    IF artist_list # <<>> THEN join(first_two(artist_list)) ELSE <<>>

artist_str_raises(artist_list) ==
    artist_list # <<>> /\ join_raises(first_two(artist_list))

api_queries(title, artist_list) ==
    LET base == title \o <<" ">> \o artist_str_of(artist_list) IN
    << base \o <<" ">> \o KW_official_audio,
       base \o <<" ">> \o KW_official,
       base,
       base \o <<" ">> \o KW_music >>

filter_keywords == {KW_shorts, KW_playlist, KW_mix, KW_compilation}

\* any(keyword in title_lower for keyword in [...])
is_filtered(item) == \E keyword \in filter_keywords : contains(keyword, lower(lower(item.title)))

title_match(item, title) ==
    LET cand == lower(item.title)
        song_title_lower == lower(title)
        words == split(song_title_lower)
    IN \/ contains(song_title_lower, cand)
       \/ \E i \in 1..Len(words) : Len(words[i]) > 3 /\ contains(words[i], cand)

artist_match(item, artist_list) ==
    LET cand == lower(item.title)
        description == lower(item.description)
        two == first_two(artist_list)
    IN \/ artist_str_of(artist_list) = <<>>
       \/ \E i \in 1..Len(two) :
             \/ contains(lower(two[i]), cand)
             \/ contains(lower(two[i]), description)

is_official(item) ==
    LET cand == lower(item.title) IN
    \/ contains(KW_official, cand)
    \/ contains(KW_official_audio, cand)
    \/ contains(KW_official_video, cand)

\* rule (a): official preferred
rule_official(item, title, artist_list) ==
    is_official(item) /\ (title_match(item, title) \/ artist_match(item, artist_list))

\* rule (b): good match even if not official
rule_match(item, title, artist_list) ==
    title_match(item, title) /\ artist_match(item, artist_list)

\* the item loop without the "good match even if not official" return
item_kind_official_only(item, title, artist_list) ==
    IF ~item.has_video_id THEN "exception"
    ELSE IF ~is_valid_video_id(item.video_id) THEN "skip"
    ELSE IF is_filtered(item) THEN "skip"
    ELSE IF rule_official(item, title, artist_list) THEN "official"
    ELSE "next"

\* what one pass of the  for item in response['items']  loop does with an item
item_kind(item, title, artist_list) ==
    IF ~item.has_video_id THEN "exception"
    ELSE IF ~is_valid_video_id(item.video_id) THEN "skip"
    ELSE IF is_filtered(item) THEN "skip"
    ELSE IF rule_official(item, title, artist_list) THEN "official"
    ELSE IF rule_match(item, title, artist_list) THEN "match"
    ELSE "next"

\* item_kind of every item for every input, evaluated once
ItemKind ==
    [x \in {<<item, input.song_title, input.artists>> :
               item \in ApiItems, input \in Inputs}
        |-> item_kind(x[1], x[2], x[3])]

\* what the checks of the item loop say about each item for each input,
\* evaluated once
ItemFacts ==
    [x \in {<<item, input.song_title, input.artists>> :
               item \in ApiItems, input \in Inputs}
        |-> [valid |-> x[1].has_video_id /\ is_valid_video_id(x[1].video_id),
             filtered |-> is_filtered(x[1]),
             official |-> is_official(x[1]),
             title_match |-> title_match(x[1], x[2]),
             artist_match |-> artist_match(x[1], x[3])]]

\* the video ID of the first item of a list that passes ID validation and
\* the keyword filter, NoId if there is none
RECURSIVE first_usable_candidate(_, _, _)
first_usable_candidate(items, title, artist_list) ==
    IF items = <<>> THEN NoId
    ELSE LET facts == ItemFacts[<<Head(items), title, artist_list>>] IN
         IF facts.valid /\ ~facts.filtered THEN Head(items).video_id
         ELSE first_usable_candidate(Tail(items), title, artist_list)

\* the  for item in response['items']  loop: the first item that returns or
\* raises ends it
RECURSIVE scan_items(_, _, _, _)
scan_items(items, i, title, artist_list) ==
    IF i > Len(items) THEN [kind |-> "nomatch", video_id |-> NoId, index |-> 0]
    ELSE LET kind == ItemKind[<<items[i], title, artist_list>>] IN
         IF kind = "exception"
         THEN [kind |-> "exception", video_id |-> NoId, index |-> i]
         ELSE IF kind \in {"official", "match"}
         THEN [kind |-> kind, video_id |-> items[i].video_id, index |-> i]
         ELSE scan_items(items, i + 1, title, artist_list)

\* a fallback that returns the first item with a valid ID, not the item at
\* index 0
first_result_any_valid(items) ==
    IF items = <<>> THEN [kind |-> "nothing", video_id |-> NoId, index |-> 0]
    ELSE IF \E i \in 1..Len(items) : ~items[i].has_video_id
    THEN [kind |-> "exception", video_id |-> NoId, index |-> 1]
    ELSE IF \E i \in 1..Len(items) : is_valid_video_id(items[i].video_id)
    THEN LET i == CHOOSE i \in 1..Len(items) :
                    /\ is_valid_video_id(items[i].video_id)
                    /\ \A j \in 1..(i - 1) : ~is_valid_video_id(items[j].video_id)
         IN [kind |-> "first", video_id |-> items[i].video_id, index |-> i]
    ELSE [kind |-> "nothing", video_id |-> NoId, index |-> 0]

\* a fallback that looks at the item at index 0 only when it is the only one
first_result_single(items) ==
    IF items = <<>> THEN [kind |-> "nothing", video_id |-> NoId, index |-> 0]
    ELSE IF ~items[1].has_video_id
    THEN [kind |-> "exception", video_id |-> NoId, index |-> 1]
    ELSE IF Len(items) = 1 /\ is_valid_video_id(items[1].video_id)
    THEN [kind |-> "first", video_id |-> items[1].video_id, index |-> 1]
    ELSE [kind |-> "nothing", video_id |-> NoId, index |-> 0]

\* "If no perfect match, return first result"
first_result(items) ==
    IF items = <<>> THEN [kind |-> "nothing", video_id |-> NoId, index |-> 0]
    ELSE IF ~items[1].has_video_id
    THEN [kind |-> "exception", video_id |-> NoId, index |-> 1]
    ELSE IF is_valid_video_id(items[1].video_id)
    THEN [kind |-> "first", video_id |-> items[1].video_id, index |-> 1]
    ELSE [kind |-> "nothing", video_id |-> NoId, index |-> 0]

\* the body of the inner try for one response that execute() returned
api_try_body(response, title, artist_list) ==
    IF response.kind = "items" /\ Len(response.items) > 0
    THEN LET scan == scan_items(response.items, 1, title, artist_list) IN
         IF scan.kind = "nomatch" THEN first_result(response.items) ELSE scan
    ELSE [kind |-> "nothing", video_id |-> NoId, index |-> 0]

\* except clauses that go on to the next query after a 403 as well
api_except_no_break(error) == "continue"

\* except clauses that leave the loop after any HttpError
api_except_break_on_http_error(error) ==
    IF error \in {"quota", "http_error"} THEN "break" ELSE "continue"

\* the except clauses of the inner try: what the loop does after an error
api_except(error) ==
    IF error = "quota" THEN "break"
    ELSE IF error = "http_error" THEN "continue"
    ELSE "continue"

\* one iteration of  for search_query in queries : how it ends (kind), the
\* video ID it returns, and how the loop goes on (step)
api_iteration(response, title, artist_list) ==
    IF response.kind \in {"quota", "http_error", "exception"}
    THEN [kind |-> response.kind, video_id |-> NoId, index |-> 0,
          step |-> api_except(response.kind)]
    ELSE LET body == api_try_body(response, title, artist_list) IN
         IF body.kind = "exception"
         THEN [kind |-> "exception", video_id |-> NoId, index |-> body.index,
               step |-> api_except("exception")]
         ELSE IF body.kind \in {"official", "match", "first"}
         THEN [kind |-> body.kind, video_id |-> body.video_id,
               index |-> body.index, step |-> "return"]
         ELSE [kind |-> "nothing", video_id |-> NoId, index |-> 0,
               step |-> "continue"]

\* an outer handler that catches HttpError only
search_with_api_except_http_only(error) ==
    IF error \in {"quota", "http_error"} THEN "return_none" ELSE "propagate"

\* the outer  except Exception  of _search_with_api: every error of the
\* model is an Exception, is logged, and the method goes on to return None
search_with_api_except(error) ==
    IF error \in {"type_error", "quota", "http_error", "exception"}
    THEN "return_none"
    ELSE "propagate"

\* ------------------------------------------------------------------------
\* _extract_video_ids_from_json
\* ------------------------------------------------------------------------
\* the  for item in items  loop over one itemSectionRenderer: the IDs
\* collected, and whether an item that is not a dict raised
RECURSIVE extract_items(_, _, _)
extract_items(items, i, video_ids) ==
    IF i > Len(items) THEN [video_ids |-> video_ids, raised |-> FALSE]
    ELSE LET item == items[i] IN
         IF item.kind = "not_dict"
         THEN [video_ids |-> video_ids, raised |-> TRUE]
         ELSE IF /\ item.kind = "video"
                 /\ item.video_id # <<>>
                 /\ is_valid_video_id(item.video_id)
         THEN extract_items(items, i + 1, Append(video_ids, item.video_id))
         ELSE extract_items(items, i + 1, video_ids)

\* the  for content in contents_list  loop
RECURSIVE extract_contents(_, _, _)
extract_contents(contents_list, j, video_ids) ==
    IF j > Len(contents_list) THEN video_ids
    ELSE LET section == extract_items(contents_list[j], 1, video_ids) IN
         IF section.raised THEN section.video_ids
         ELSE extract_contents(contents_list, j + 1, section.video_ids)

\* text is the response body: whether the ytInitialData regex matches,
\* whether json.loads accepts the match, and the parsed data
extract_video_ids_from_json(text) ==
    IF ~text.yt_found THEN <<>>
    ELSE IF ~text.yt_parses THEN <<>>
    ELSE IF ~text.yt_is_dict THEN <<>>
    ELSE extract_contents(text.yt_contents, 1, <<>>)

\* ------------------------------------------------------------------------
\* _search_with_scraping
\* ------------------------------------------------------------------------
scrape_queries(title, artist_list) ==
    LET base == title \o <<" ">> \o artist_str_of(artist_list) IN
    << base \o <<" ">> \o KW_official_audio,
       base \o <<" ">> \o KW_official,
       base \o <<" ">> \o KW_music,
       base >>

\* not song_title or not song_title.strip()
is_blank(title) == title = <<>> \/ strip(title) = <<>>

\* the index of the first query from i on that is not empty once stripped
\* (an empty one is skipped without a request), 5 if there is none
RECURSIVE next_query(_, _)
next_query(queries, i) ==
    IF i > Len(queries) THEN i
    ELSE IF strip(queries[i]) = <<>> THEN next_query(queries, i + 1)
    ELSE i

\* re.findall(r'/watch\?v=([a-zA-Z0-9_-]{11})', text): text.watch_tails are
\* the characters that follow each "/watch?v=" of the body
RECURSIVE watch_findall(_)
watch_findall(tails) ==
    IF tails = <<>> THEN <<>>
    ELSE LET tail == Head(tails) IN
         IF /\ Len(tail) >= 11
            /\ \A i \in 1..11 : tail[i] \in IdChars
         THEN <<SubSeq(tail, 1, 11)>> \o watch_findall(Tail(tails))
         ELSE watch_findall(Tail(tails))

\* for vid_id in ids : if self._is_valid_video_id(vid_id) : return vid_id
RECURSIVE first_valid(_)
first_valid(ids) ==
    IF ids = <<>> THEN NoId
    ELSE IF is_valid_video_id(Head(ids)) THEN Head(ids)
    ELSE first_valid(Tail(ids))

\* a 200 block that looks at the watch URLs before the embedded JSON
scrape_try_body_urls_first(text) ==
    LET video_ids == extract_video_ids_from_json(text)
        from_json == IF video_ids # <<>> THEN first_valid(video_ids) ELSE NoId
        watch_matches == watch_findall(text.watch_tails)
        from_urls == IF watch_matches # <<>> THEN first_valid(watch_matches) ELSE NoId
    IN IF from_urls # NoId THEN [kind |-> "urls", video_id |-> from_urls]
       ELSE IF from_json # NoId THEN [kind |-> "json", video_id |-> from_json]
       ELSE [kind |-> "nothing", video_id |-> NoId]

\* the  if response.status_code == 200  block
scrape_try_body(text) ==
    LET video_ids == extract_video_ids_from_json(text)
        from_json == IF video_ids # <<>> THEN first_valid(video_ids) ELSE NoId
        watch_matches == watch_findall(text.watch_tails)
        from_urls == IF watch_matches # <<>> THEN first_valid(watch_matches) ELSE NoId
    IN IF from_json # NoId THEN [kind |-> "json", video_id |-> from_json]
       ELSE IF from_urls # NoId THEN [kind |-> "urls", video_id |-> from_urls]
       ELSE [kind |-> "nothing", video_id |-> NoId]

\* except clauses that leave the loop after a timeout
scrape_except_break_on_timeout(error) ==
    IF error = "timeout" THEN "break" ELSE "continue"

\* the except clauses of the inner try
scrape_except(error) ==
    IF error = "timeout" THEN "continue" ELSE "continue"

\* one iteration of  for search_query in queries
scrape_iteration(response) ==
    IF response.kind \in {"timeout", "exception"}
    THEN [kind |-> response.kind, video_id |-> NoId,
          step |-> scrape_except(response.kind)]
    ELSE IF response.status_code = 200
    THEN LET body == scrape_try_body(response.text) IN
         IF body.kind \in {"json", "urls"}
         THEN [kind |-> body.kind, video_id |-> body.video_id, step |-> "return"]
         ELSE [kind |-> "nothing", video_id |-> NoId, step |-> "continue"]
    ELSE [kind |-> "status", video_id |-> NoId, step |-> "continue"]

\* the outer  except Exception  of _search_with_scraping
search_with_scraping_except(error) ==
    IF error \in {"type_error", "timeout", "exception"}
    THEN "return_none"
    ELSE "propagate"

\* ------------------------------------------------------------------------
\* State machine
\* ------------------------------------------------------------------------
\* the threads of the server that run request handlers
Workers == 1..MaxWorkers

\* _youtube_service = None
None == 0

Init ==
    /\ api_key \in BOOLEAN
    /\ YOUTUBE_API_AVAILABLE \in BOOLEAN
    /\ \E build_ok \in BOOLEAN :
          youtube_api = init_youtube_api(api_key, YOUTUBE_API_AVAILABLE, build_ok)
    /\ song_title = <<>>
    /\ artists = <<>>
    /\ pc = "idle"
    /\ variant = 1
    /\ api_calls = 0
    /\ http_calls = 0
    /\ last_query = <<>>
    /\ last_response = NoResponse
    /\ outcomes = <<>>
    /\ first_results = NoResults
    /\ any_usable_candidate = FALSE
    /\ result = Pending
    /\ _youtube_service = 1
    /\ instances = 1
    /\ worker_pc = [w \in Workers |-> "idle"]
    /\ new_instance = [w \in Workers |-> None]
    /\ returned = {1}

\* search_video_id is entered: the strategy is chosen and the code before
\* the first request runs
Call(input) ==
    /\ pc = "idle"
    /\ song_title' = input.song_title
    /\ artists' = input.artists
    /\ variant' = IF youtube_api THEN 1
                  ELSE next_query(scrape_queries(input.song_title, input.artists), 1)
    /\ api_calls' = 0
    /\ http_calls' = 0
    /\ last_query' = <<>>
    /\ last_response' = NoResponse
    /\ outcomes' = <<>>
    /\ first_results' = NoResults
    /\ any_usable_candidate' = FALSE
    /\ IF youtube_api
       THEN IF artist_str_raises(input.artists)
            THEN /\ pc' = "done"
                 /\ result' = IF search_with_api_except("type_error") = "return_none"
                              THEN ReturnNone ELSE Raised
            ELSE /\ pc' = "api"
                 /\ result' = Pending
       ELSE IF is_blank(input.song_title)
            THEN /\ pc' = "done"
                 /\ result' = ReturnNone
            ELSE IF artist_str_raises(input.artists)
            THEN /\ pc' = "done"
                 /\ result' = IF search_with_scraping_except("type_error") = "return_none"
                              THEN ReturnNone ELSE Raised
            ELSE IF next_query(scrape_queries(input.song_title, input.artists), 1) > 4
            THEN /\ pc' = "done"
                 /\ result' = ReturnNone
            ELSE /\ pc' = "scrape"
                 /\ result' = Pending
    /\ UNCHANGED <<api_key, YOUTUBE_API_AVAILABLE, youtube_api>>
    /\ UNCHANGED singleton_vars

\* one iteration of the query loop of _search_with_api, with the response
\* that request.execute() produced
ApiRequest(response) ==
    /\ pc = "api"
    /\ variant \in 1..4
    /\ LET it == api_iteration(response, song_title, artists) IN
       /\ api_calls' = api_calls + 1
       /\ last_query' = api_queries(song_title, artists)[variant]
       /\ last_response' = response
       /\ outcomes' = Append(outcomes, it.kind)
       /\ first_results' =
             IF first_results.variant = 0 /\ response.items # <<>>
             THEN [variant |-> variant,
                   video_id |-> first_usable_candidate(response.items,
                                                       song_title, artists)]
             ELSE first_results
       /\ any_usable_candidate' =
             \/ any_usable_candidate
             \/ first_usable_candidate(response.items, song_title, artists) # NoId
       /\ IF it.step = "return"
          THEN /\ pc' = "done"
               /\ result' = ReturnId(it.video_id)
               /\ variant' = variant
          ELSE IF it.step = "raise"
          THEN /\ pc' = "done"
               /\ result' = IF search_with_api_except(it.kind) = "return_none"
                            THEN ReturnNone ELSE Raised
               /\ variant' = variant
          ELSE IF it.step = "break" \/ variant = 4
          THEN /\ pc' = "done"
               /\ result' = ReturnNone
               /\ variant' = variant
          ELSE /\ pc' = "api"
               /\ result' = Pending
               /\ variant' = variant + 1
    /\ UNCHANGED <<api_key, YOUTUBE_API_AVAILABLE, youtube_api, song_title,
                   artists, http_calls>>
    /\ UNCHANGED singleton_vars

\* one iteration of the query loop of _search_with_scraping, with what
\* self.session.get() produced
ScrapeRequest(response) ==
    /\ pc = "scrape"
    /\ variant \in 1..4
    /\ LET queries == scrape_queries(song_title, artists)
           it == scrape_iteration(response)
           following == next_query(queries, variant + 1)
       IN
       /\ http_calls' = http_calls + 1
       /\ last_query' = strip(queries[variant])
       /\ last_response' = response
       /\ outcomes' = Append(outcomes, it.kind)
       /\ IF it.step = "return"
          THEN /\ pc' = "done"
               /\ result' = ReturnId(it.video_id)
               /\ variant' = variant
          ELSE IF it.step = "raise"
          THEN /\ pc' = "done"
               /\ result' = IF search_with_scraping_except(it.kind) = "return_none"
                            THEN ReturnNone ELSE Raised
               /\ variant' = variant
          ELSE IF it.step = "break" \/ following > 4
          THEN /\ pc' = "done"
               /\ result' = ReturnNone
               /\ variant' = variant
          ELSE /\ pc' = "scrape"
               /\ result' = Pending
               /\ variant' = following
    /\ UNCHANGED <<api_key, YOUTUBE_API_AVAILABLE, youtube_api, song_title,
                   artists, api_calls, first_results, any_usable_candidate>>
    /\ UNCHANGED singleton_vars

\* search_video_id returns: the caller has the result and the locals of the
\* call are gone
Return ==
    /\ pc = "done"
    /\ pc' = "idle"
    /\ song_title' = <<>>
    /\ artists' = <<>>
    /\ variant' = 1
    /\ api_calls' = 0
    /\ http_calls' = 0
    /\ last_query' = <<>>
    /\ last_response' = NoResponse
    /\ outcomes' = <<>>
    /\ first_results' = NoResults
    /\ any_usable_candidate' = FALSE
    /\ result' = Pending
    /\ UNCHANGED <<api_key, YOUTUBE_API_AVAILABLE, youtube_api>>
    /\ UNCHANGED singleton_vars

Next ==
    \/ \E input \in Inputs : Call(input)
    \/ \E response \in ApiResponses : ApiRequest(response)
    \/ \E response \in HttpResponses : ScrapeRequest(response)
    \/ Return

Spec == Init /\ [][Next]_vars

\* A service without an API client, which scrapes: the first results page of
\* a call is any page of Pages, later requests get one of RetryResponses.
InitScrape == Init /\ ~api_key /\ ~YOUTUBE_API_AVAILABLE

\* the first iteration of the query loop, and the later ones
FirstScrapeRequest(response) == http_calls = 0 /\ ScrapeRequest(response)
RetryScrapeRequest(response) == http_calls > 0 /\ ScrapeRequest(response)

NextScrape ==
    \/ \E input \in Inputs : Call(input)
    \/ \E response \in PageResponses : FirstScrapeRequest(response)
    \/ \E response \in RetryResponses : RetryScrapeRequest(response)
    \/ Return

SpecScrape == InitScrape /\ [][NextScrape]_vars

\* ------------------------------------------------------------------------
\* get_youtube_service, called by the workers of a freshly started process;
\* the function takes no lock, so the steps of the workers interleave
\* ------------------------------------------------------------------------
call_vars == <<song_title, artists, pc, variant, api_calls, http_calls,
               last_query, last_response, outcomes, first_results,
               any_usable_candidate, result>>

\* the module has been imported: _youtube_service = None, and no instance
\* exists yet
InitSingleton ==
    /\ api_key \in BOOLEAN
    /\ YOUTUBE_API_AVAILABLE \in BOOLEAN
    /\ youtube_api = FALSE
    /\ song_title = <<>>
    /\ artists = <<>>
    /\ pc = "idle"
    /\ variant = 1
    /\ api_calls = 0
    /\ http_calls = 0
    /\ last_query = <<>>
    /\ last_response = NoResponse
    /\ outcomes = <<>>
    /\ first_results = NoResults
    /\ any_usable_candidate = FALSE
    /\ result = Pending
    /\ _youtube_service = None
    /\ instances = 0
    /\ worker_pc = [w \in Workers |-> "idle"]
    /\ new_instance = [w \in Workers |-> None]
    /\ returned = {}

\* if _youtube_service is None:
CheckService(w) ==
    /\ worker_pc[w] = "idle"
    /\ worker_pc' = [worker_pc EXCEPT ![w] =
                        IF _youtube_service = None THEN "construct" ELSE "return"]
    /\ UNCHANGED <<api_key, YOUTUBE_API_AVAILABLE, youtube_api, _youtube_service,
                   instances, new_instance, returned>>
    /\ UNCHANGED call_vars

\* the right-hand side YouTubeService(): __init__ runs and a new instance
\* exists; youtube_api is the attribute of the instance made last
ConstructService(w) ==
    /\ worker_pc[w] = "construct"
    /\ \E build_ok \in BOOLEAN :
          youtube_api' = init_youtube_api(api_key, YOUTUBE_API_AVAILABLE, build_ok)
    /\ instances' = instances + 1
    /\ new_instance' = [new_instance EXCEPT ![w] = instances + 1]
    /\ worker_pc' = [worker_pc EXCEPT ![w] = "assign"]
    /\ UNCHANGED <<api_key, YOUTUBE_API_AVAILABLE, _youtube_service, returned>>
    /\ UNCHANGED call_vars

\* _youtube_service = <the new instance>
AssignService(w) ==
    /\ worker_pc[w] = "assign"
    /\ _youtube_service' = new_instance[w]
    /\ new_instance' = [new_instance EXCEPT ![w] = None]
    /\ worker_pc' = [worker_pc EXCEPT ![w] = "return"]
    /\ UNCHANGED <<api_key, YOUTUBE_API_AVAILABLE, youtube_api, instances, returned>>
    /\ UNCHANGED call_vars

\* return _youtube_service ; the worker may call again later
ReturnService(w) ==
    /\ worker_pc[w] = "return"
    /\ returned' = returned \cup {_youtube_service}
    /\ worker_pc' = [worker_pc EXCEPT ![w] = "idle"]
    /\ UNCHANGED <<api_key, YOUTUBE_API_AVAILABLE, youtube_api, _youtube_service,
                   instances, new_instance>>
    /\ UNCHANGED call_vars

NextSingleton ==
    \/ \E w \in Workers : CheckService(w)
    \/ \E w \in Workers : ConstructService(w)
    \/ \E w \in Workers : AssignService(w)
    \/ \E w \in Workers : ReturnService(w)

SpecSingleton == InitSingleton /\ [][NextSingleton]_vars

\* ------------------------------------------------------------------------
\* Properties
\* ------------------------------------------------------------------------
\* the call runs the API strategy and last_response is the response to the
\* query variant numbered api_calls
InApiCall == youtube_api /\ pc \in {"api", "done"} /\ api_calls > 0

\* the same, for a call with a song title (a SongQuery has a non-empty one)
InTitledApiCall == InApiCall /\ song_title # <<>>

LastItems == IF last_response.kind = "items" THEN last_response.items ELSE <<>>

Facts(i) == ItemFacts[<<LastItems[i], song_title, artists>>]

\* the scan of LastItems gets to item i: no item before it, nor it, lacks
\* ['id']['videoId']
Reached(i) == \A j \in 1..i : LastItems[j].has_video_id

\* item i passes ID validation and the keyword filter
Usable(i) ==
    /\ Reached(i)
    /\ Facts(i).valid
    /\ ~Facts(i).filtered

\* item i is a candidate that satisfies rule (a) or rule (b)
Satisfies(i) ==
    /\ Usable(i)
    /\ \/ /\ Facts(i).official
          /\ Facts(i).title_match \/ Facts(i).artist_match
       \/ /\ Facts(i).title_match
          /\ Facts(i).artist_match

\* C1: every video ID that search_video_id returns, from the API path or
\* from the scraping path, has 11 characters, all of them in [a-zA-Z0-9_-],
\* and is none of AAAAAAAAAAA, undefined, null, true, false.
ReturnedIdIsValid ==
    result.kind = "id" =>
        /\ Len(result.video_id) = 11
        /\ \A i \in 1..Len(result.video_id) : result.video_id[i] \in IdChars
        /\ result.video_id \notin
              {ID_AAAAAAAAAAA, ID_undefined, KW_null, KW_true, KW_false}

\* an ID came back from a result list that starts with the AAAAAAAAAAA
\* placeholder
ReturnedPastPlaceholder ==
    /\ pc = "done"
    /\ youtube_api
    /\ result.kind = "id"
    /\ Len(LastItems) = 2
    /\ LastItems[1].video_id = ID_AAAAAAAAAAA

\* C2: whatever each query variant produces (403, another API error, a
\* timeout, a network exception, a non-200 status, a malformed payload, an
\* invalid candidate), search_video_id ends with a video ID or None after at
\* most four requests, and no exception leaves it.
NoExceptionPropagates ==
    /\ result.kind # "raised"
    /\ pc = "done" => result.kind \in {"none", "id"}
    /\ api_calls <= 4
    /\ http_calls <= 4

\* a call that met an HTTP error, an exception, an empty result and a 403
\* returned None
ReturnedNoneAfterErrors ==
    /\ pc = "done"
    /\ result = ReturnNone
    /\ outcomes = <<"http_error", "exception", "nothing", "quota">>

\* C3: one strategy per call: without a key, the library or a client no API
\* request is issued; with a client no HTTP GET is issued, even when the API
\* strategy ends without a match.
ExactlyOneStrategy ==
    /\ (~api_key \/ ~YOUTUBE_API_AVAILABLE \/ ~youtube_api) => api_calls = 0
    /\ youtube_api => http_calls = 0
    /\ pc = "api" => youtube_api
    /\ pc = "scrape" => ~youtube_api

\* the API strategy used up its four queries and the call returned None
\* without one HTTP GET
ApiExhaustedWithoutScraping ==
    /\ pc = "done"
    /\ youtube_api
    /\ api_calls = 4
    /\ http_calls = 0
    /\ result = ReturnNone
    /\ \A j \in 1..4 : outcomes[j] = "nothing"

\* C4: a 403 on the request for variant k is the last request of the call,
\* and the call returns None; a 403 on the first variant leaves one request.
QuotaErrorAborts ==
    \A j \in 1..Len(outcomes) :
        outcomes[j] = "quota" =>
            /\ j = Len(outcomes)
            /\ api_calls = j
            /\ pc = "done"
            /\ result = ReturnNone

\* a 403 on the first variant
QuotaOnFirstVariant ==
    /\ pc = "done"
    /\ outcomes = <<"quota">>
    /\ api_calls = 1

\* C5: when a result list holds an official candidate that satisfies
\* title_match or artist_match and a non-official one that satisfies both,
\* the API strategy returns an official one, in whatever order they come.
OfficialMatchPrecedence ==
    (/\ InTitledApiCall
     /\ pc = "done"
     /\ \A i \in 1..Len(LastItems) : LastItems[i].has_video_id
     /\ \E i \in 1..Len(LastItems) : Satisfies(i) /\ Facts(i).official
     /\ \E i \in 1..Len(LastItems) : Satisfies(i) /\ ~Facts(i).official)
    => \E i \in 1..Len(LastItems) :
          /\ Satisfies(i)
          /\ Facts(i).official
          /\ result = ReturnId(LastItems[i].video_id)

\* C6: the API strategy never returns a candidate whose title contains
\* '#shorts', 'playlist', 'mix' or 'compilation'.
NeverReturnsFilteredTitle ==
    (InTitledApiCall /\ pc = "done" /\ result.kind = "id") =>
        \A i \in 1..Len(LastItems) :
            (LastItems[i].has_video_id /\ LastItems[i].video_id = result.video_id)
                => ~Facts(i).filtered

\* C7: the first candidate of the scanned list that passes ID validation and
\* the keyword filter and satisfies rule (a) or (b) is returned at once, with
\* no further request (the scan has to get to it: an item of unexpected shape
\* before it ends the variant, see C10); 'Blinding Lights' by 'The Weeknd'
\* with the single candidate 'The Weeknd - Blinding Lights (Official Video)'
\* returns 4NRXx6U8ABQ after one request.
FirstMatchReturned ==
    /\ InApiCall =>
          \A i \in 1..Len(LastItems) :
              (Satisfies(i) /\ \A j \in 1..(i - 1) : ~Satisfies(j)) =>
                  /\ pc = "done"
                  /\ result = ReturnId(LastItems[i].video_id)
                  /\ api_calls = variant
                  /\ Len(outcomes) = api_calls
    /\ (/\ InApiCall
        /\ song_title = T_BlindingLights
        /\ artists = <<A_TheWeeknd>>
        /\ api_calls = 1
        /\ last_response.kind = "items"
        /\ last_response.items = <<OfficialItem>>)
       => (pc = "done" /\ result = ReturnId(ID_4NRXx6U8ABQ))

\* a non-official candidate that matches title and artist, behind an item
\* with the AAAAAAAAAAA placeholder ID, was returned
MatchReturnedBehindInvalid ==
    /\ InApiCall
    /\ pc = "done"
    /\ song_title = T_BlindingLights
    /\ LastItems = <<PlaceholderItem, LyricsItem>>
    /\ result = ReturnId(ID_dQw4w9WgXcQ)

\* C8 as claimed: a variant k < 4 with a non-empty result list in which no
\* candidate satisfies rule (a) or (b) does not end the call (stated for the
\* lists of well-shaped items that the keyword filter lets through).
UnmatchedVariantFallsThrough ==
    (/\ InTitledApiCall
     /\ api_calls < 4
     /\ LastItems # <<>>
     /\ \A i \in 1..Len(LastItems) : Reached(i) /\ ~Facts(i).filtered
     /\ \A i \in 1..Len(LastItems) : ~Satisfies(i))
    => pc # "done"

\* C8, amended: a variant with a non-empty result list in which no candidate
\* satisfies rule (a) or (b) ends the call with the video ID of the item at
\* index 0 when the whole list has the expected shape and that ID is of valid
\* format; otherwise it returns no ID and, for k < 4, the request for variant
\* k+1 is issued.
UnmatchedVariantReturnsFirstResult ==
    (/\ InApiCall
     /\ LastItems # <<>>
     /\ \A i \in 1..Len(LastItems) : ~Satisfies(i))
    => IF /\ \A i \in 1..Len(LastItems) : LastItems[i].has_video_id
          /\ is_valid_video_id(LastItems[1].video_id)
       THEN /\ pc = "done"
            /\ result = ReturnId(LastItems[1].video_id)
            /\ api_calls = variant
       ELSE /\ result.kind # "id"
            /\ api_calls < 4 => (pc = "api" /\ variant = api_calls + 1)
            /\ api_calls = 4 => (pc = "done" /\ result = ReturnNone)

\* the first variant returned a list without a match and the call ended with
\* the first item of it
FirstResultOfFirstVariant ==
    /\ InApiCall
    /\ pc = "done"
    /\ api_calls = 1
    /\ song_title = T_StarboyLights
    /\ LastItems = <<LyricsItem, ShortsItem>>
    /\ result = ReturnId(ID_dQw4w9WgXcQ)

\* C9 as claimed: after four variants (none of them failed, all of them
\* gone through) without a rule (a) or (b) match the call returns the first valid-format candidate ID of
\* the first variant that returned results, and None only if no variant
\* returned a valid-format candidate (a candidate being an item that the
\* keyword filter lets through).
FallbackIsFirstValidCandidate ==
    (/\ InTitledApiCall
     /\ pc = "done"
     /\ api_calls = 4
     /\ \A j \in 1..4 : outcomes[j] = "nothing")
    => /\ first_results.video_id # NoId
             => result = ReturnId(first_results.video_id)
       /\ result.kind = "none" => ~any_usable_candidate

\* C9, amended: the first-result fallback runs in each variant: while no
\* candidate satisfies rule (a) or (b), a variant whose non-empty list has
\* the expected shape throughout and a valid-format ID at index 0 ends the
\* call with that ID; any other variant returns no ID, and the call returns
\* None when its last variant (the fourth, or one that got a 403) is such.
FallbackIsIndexZero ==
    (/\ InApiCall
     /\ \A j \in 1..Len(outcomes) : outcomes[j] \notin {"official", "match"})
    => LET head_ok ==
               /\ LastItems # <<>>
               /\ \A i \in 1..Len(LastItems) : LastItems[i].has_video_id
               /\ is_valid_video_id(LastItems[1].video_id)
       IN /\ head_ok => (pc = "done" /\ result = ReturnId(LastItems[1].video_id))
          /\ ~head_ok => result.kind # "id"
          /\ (pc = "done" /\ ~head_ok) =>
                /\ result = ReturnNone
                /\ api_calls = 4 \/ outcomes[Len(outcomes)] = "quota"

\* four variants without a match, one of them with a valid-format, unfiltered
\* candidate behind an invalid first item: the call returned None
NoneDespiteValidCandidate ==
    /\ InApiCall
    /\ pc = "done"
    /\ api_calls = 4
    /\ \A j \in 1..4 : outcomes[j] = "nothing"
    /\ any_usable_candidate
    /\ result = ReturnNone

\* C10: an error other than 403 on the request for variant k < 4 (an HTTP
\* error, a network error, an item of unexpected shape) skips that variant
\* only: the request for variant k+1 is issued, and the result of the call
\* comes from a later variant.
OtherErrorsSkipOneVariant ==
    youtube_api =>
        \A j \in 1..Len(outcomes) :
            (outcomes[j] \in {"http_error", "exception"} /\ j < 4) =>
                /\ Len(outcomes) = j =>
                      /\ pc = "api"
                      /\ variant = j + 1
                      /\ api_calls = j
                      /\ result = Pending
                /\ pc = "done" =>
                      /\ Len(outcomes) > j
                      /\ api_calls = Len(outcomes)
                      /\ result.kind = "id" =>
                            /\ outcomes[Len(outcomes)] \in {"official", "match", "first"}
                            /\ \E i \in 1..Len(LastItems) :
                                  LastItems[i].video_id = result.video_id
                      /\ result.kind = "none" =>
                            \/ Len(outcomes) = 4
                            \/ outcomes[Len(outcomes)] = "quota"

\* the third variant returned an ID after an HTTP error and an exception
ReturnedAfterSkippedVariants ==
    /\ pc = "done"
    /\ youtube_api
    /\ result.kind = "id"
    /\ Len(outcomes) = 3
    /\ outcomes[1] = "http_error"
    /\ outcomes[2] = "exception"

\* the call runs the scraping strategy and has entered its query loop
InScrapeCall == ~youtube_api /\ pc \in {"scrape", "done"} /\ http_calls > 0

\* what the four variants append to "<title> <artists>", in the order of the
\* claim: official audio, official, music, nothing
VariantSuffixes ==
    << <<" ">> \o KW_official_audio, <<" ">> \o KW_official,
       <<" ">> \o KW_music, <<>> >>

\* the outcomes of a variant that yields no valid ID
NoIdOutcomes == {"status", "timeout", "exception", "nothing"}

\* C11: the scraping strategy requests the variants one at a time in the
\* order official audio, official, music, bare; a non-200 response, a timeout
\* or another exception on variant k leaves the call running with variant
\* k+1 next; a call issues at most 4 GETs, ends with the ID of the first
\* variant that yields one, and ends with None exactly when all four
\* variants yielded no valid ID.
ScrapingTriesVariantsInOrder ==
    (~youtube_api /\ pc \in {"scrape", "done"}) =>
        /\ http_calls = Len(outcomes)
        /\ http_calls <= 4
        /\ http_calls > 0 =>
              last_query = strip(song_title \o <<" ">> \o artist_str_of(artists)
                                 \o VariantSuffixes[http_calls])
        /\ \A j \in 1..(Len(outcomes) - 1) : outcomes[j] \in NoIdOutcomes
        /\ pc = "scrape" =>
              /\ result = Pending
              /\ http_calls < 4
              /\ variant = http_calls + 1
              /\ \A j \in 1..Len(outcomes) : outcomes[j] \in NoIdOutcomes
        /\ (pc = "done" /\ http_calls > 0) =>
              /\ result.kind \in {"id", "none"}
              /\ result.kind = "id" <=>
                    outcomes[Len(outcomes)] \in {"json", "urls"}
              /\ result.kind = "id" => is_valid_video_id(result.video_id)
              /\ result.kind = "none" <=>
                    /\ http_calls = 4
                    /\ \A j \in 1..4 : outcomes[j] \in NoIdOutcomes

\* the fourth GET returned an ID after a non-200 response, a timeout and an
\* exception on the first three variants
ScrapedAfterThreeFailures ==
    /\ InScrapeCall
    /\ pc = "done"
    /\ outcomes = <<"status", "timeout", "exception", "urls">>
    /\ result = ReturnId(ID_dQw4w9WgXcQ)

\* the entries of the result list in document order
RECURSIVE Flatten(_)
Flatten(contents_list) ==
    IF contents_list = <<>> THEN <<>>
    ELSE Head(contents_list) \o Flatten(Tail(contents_list))

\* the entries that come before the first one that is not an object
BeforeFirstNotDict(entries) ==
    LET stops == {i \in 1..Len(entries) : entries[i].kind = "not_dict"} IN
    IF stops = {} THEN entries
    ELSE SubSeq(entries, 1, (CHOOSE i \in stops : \A k \in stops : i <= k) - 1)

\* the format-valid video IDs that the embedded-JSON pass finds in a body
JsonYield(text) ==
    IF text.yt_found /\ text.yt_parses /\ text.yt_is_dict
    THEN SelectSeq(BeforeFirstNotDict(Flatten(text.yt_contents)),
                   LAMBDA e : e.kind = "video" /\ is_valid_video_id(e.video_id))
    ELSE <<>>

\* the format-valid matches of the "/watch?v=" pattern in a body
UrlYield(text) ==
    LET matching == SelectSeq(text.watch_tails,
                       LAMBDA t : Len(t) >= 11 /\ \A i \in 1..11 : t[i] \in IdChars)
        captured == [i \in 1..Len(matching) |-> SubSeq(matching[i], 1, 11)]
    IN SelectSeq(captured, is_valid_video_id)

\* last_response is a 200 response of the scraping strategy
In200Response ==
    InScrapeCall /\ last_response.kind = "status" /\ last_response.status_code = 200

\* C12: for a 200 response, the variant returns the first format-valid ID
\* of the embedded-JSON pass when that pass yields one; the "/watch?v=" pass
\* decides only when the JSON pass yields nothing (blob absent, not valid
\* JSON, of another shape, or without a valid ID), and then the variant
\* returns its first format-valid match; a body with /watch?v=dQw4w9WgXcQ
\* and no ytInitialData block yields dQw4w9WgXcQ.
JsonPassBeforeUrlPass ==
    In200Response =>
        LET text == last_response.text
            json_ids == JsonYield(text)
            url_ids == UrlYield(text)
            outcome == outcomes[Len(outcomes)]
        IN /\ json_ids # <<>> =>
                 /\ outcome = "json"
                 /\ pc = "done"
                 /\ result = ReturnId(json_ids[1].video_id)
           /\ outcome = "urls" => json_ids = <<>>
           /\ (json_ids = <<>> /\ url_ids # <<>>) =>
                 /\ outcome = "urls"
                 /\ pc = "done"
                 /\ result = ReturnId(url_ids[1])
           /\ (json_ids = <<>> /\ url_ids = <<>>) =>
                 /\ outcome = "nothing"
                 /\ result.kind # "id"
           /\ text = Text(FALSE, FALSE, FALSE, <<>>, <<ID_dQw4w9WgXcQ>>) =>
                 result = ReturnId(ID_dQw4w9WgXcQ)

\* a page whose JSON blob lists a placeholder and then 4NRXx6U8ABQ, and
\* whose first watch URL is dQw4w9WgXcQ: the JSON ID is returned
JsonIdReturnedBeforeUrlId ==
    /\ In200Response
    /\ last_response.text =
          Text(TRUE, TRUE, TRUE,
               << <<VideoEntry(ID_undefined), VideoEntry(ID_4NRXx6U8ABQ)>> >>,
               <<ID_dQw4w9WgXcQ>>)
    /\ result = ReturnId(ID_4NRXx6U8ABQ)

\* C13: whatever the number of get_youtube_service calls and however the
\* steps of the workers interleave, at most one YouTubeService instance is
\* constructed and every call returns that one instance.
SingletonConstructedOnce ==
    /\ instances <= 1
    /\ Cardinality(returned) <= 1

====
